---- MODULE Spec2Model ----
(***************************************************************************)
(* Binary stabilizer-algebra engine of super-cliffords: REF_binary, g,     *)
(* row_sum, the OTOC sample, the cut entropy and the step triggers.        *)
(* Matrices are functions 0..n_rows-1 -> (0..n_cols-1 -> {0,1}), indexed   *)
(* from 0 as the numpy arrays of the source are.                           *)
(***************************************************************************)
EXTENDS Integers, FiniteSets, Sequences, TLC

\* ------------------------------------------------------------------ bounds
MaxN == 2          \* largest declared number of qubits N
MaxCells == 6      \* largest n_rows * n_cols of a matrix whose shape is free
MaxStep == 15      \* largest step_count handed to Step.validate
MaxRep == 2        \* largest repetition count rep
MaxQubits == 4     \* largest N of a step sequence
MaxSlow == 2       \* largest slow of a step
MaxCount == 2      \* largest step_count a step sequence is applied at
MaxLen == 3        \* largest length of an op_string argument
MaxT == 4          \* largest number of timesteps T of a driver
MaxRes == 3        \* largest resolution res of a driver

Bit == {0, 1}

VARIABLES
  pc,            \* which call has been made on the drawn inputs
  N,             \* the declared N handed to REF_binary / row_sum
  A, signs,      \* the matrix and the sign vector, mutated in place
  inA, inSigns,  \* the arguments of the latest REF_binary call
  origA, origSigns, \* the inputs as drawn, before any permutation
  current_row,   \* REF_binary's local current_row when it returned
  nswap, nelim,  \* row swaps that moved a row / eliminations, latest call
  err,           \* the exception the latest call ended with, or "none"
  calls,         \* REF_binary calls made so far
  rowh, rowi, rh, ri,   \* the arguments h, i, rh, ri of row_sum
  qubit,         \* the loop index j of row_sum whose g call is recorded
  k_out, rs_out, g_out, \* row_sum's k, row_sum's result, g's result
  rep, rank, size2, Ans, sample, \* one OTOC sample (sample is scaled)
  s_gates, Op_gates,    \* the gates of the evolved circuit and of Op
  cut, SA,       \* the cut and the entropy computed for it
  when, step_count, validated, \* a Step, its step counter, validate's result
  slow,          \* the slow of the steps of a sequence
  classes,       \* the classes of the steps of a StepSequence, in list order
  op_arg,        \* the op_string argument of Initialize
  op_string,     \* Initialize's stored self.op_string
  log,           \* the gate operations done on the simulator s, in order
  step_err,      \* the exception that ended the construction or the apply
  driver, T, res,  \* the driver called, its arguments T and res
  v_arr, w_arr,  \* the arrays v and w of the driver, v in units of 1/rep
  adds,          \* the (k, i) whose sample was added to v, in order
  drv_err        \* the exception that ended the driver, or "none"

refVars == <<N, A, signs, inA, inSigns, origA, origSigns, current_row,
             nswap, nelim, err, calls>>
rsVars == <<rowh, rowi, rh, ri, qubit, k_out, rs_out, g_out>>
otocVars == <<rep, rank, size2, Ans, sample, s_gates, Op_gates>>
entVars == <<cut, SA>>
seqVars == <<slow, classes, op_arg, op_string, log, step_err>>
drvVars == <<driver, T, res, v_arr, w_arr, adds, drv_err>>
stepVars == <<when, step_count, validated, seqVars, drvVars>>
vars == <<pc, refVars, rsVars, otocVars, entVars, stepVars>>

\* ------------------------------------------------------------- the matrices
n_rows(M) == Cardinality(DOMAIN M)
n_cols(M) == Cardinality(DOMAIN M[0])

Matrices(r, c) == [0..r-1 -> [0..c-1 -> Bit]]
SignVectors(r) == [0..r-1 -> Bit]

\* ------------------------------------------------------------ g and row_sum
\* g with the operands of its last case exchanged
g_exchanged(x1, z1, x2, z2) ==
  IF x1 = 1 /\ z1 = 1 THEN x2 - z2
  ELSE IF x1 = 1 /\ z1 = 0 THEN z2 * (2 * x2 - 1)
  ELSE IF x1 = 0 /\ z1 = 1 THEN x2 * (1 - 2 * z2)
  ELSE 0

g(x1, z1, x2, z2) ==
  IF x1 = 1 /\ z1 = 1 THEN z2 - x2
  ELSE IF x1 = 1 /\ z1 = 0 THEN z2 * (2 * x2 - 1)
  ELSE IF x1 = 0 /\ z1 = 1 THEN x2 * (1 - 2 * z2)
  ELSE 0

\* the loop of row_sum: k after the iterations j, j+1, .., n-1, started at k
RECURSIVE row_sum_k(_, _, _, _, _)
row_sum_k(h, i, n, j, k) ==
  IF j >= n THEN k
  ELSE row_sum_k(h, i, n, j + 1, k + g(i[j], i[j + n], h[j], h[j + n]))

\* row_sum testing f % 2 in place of f % 4
row_sum_mod2(h, i, a, b, n) ==
  LET k == row_sum_k(h, i, n, 0, 0)
      f == 2 * a + 2 * b + k
  IN IF f % 2 = 0 THEN 0 ELSE 1

\* row_sum without the sign ri of row i in f
row_sum_ri_dropped(h, i, a, b, n) ==
  LET k == row_sum_k(h, i, n, 0, 0)
      f == 2 * a + k
  IN IF f % 4 = 0 THEN 0 ELSE 1

\* row_sum that returns 0 for the remainders 0 and 1 of f
row_sum_low(h, i, a, b, n) ==
  LET k == row_sum_k(h, i, n, 0, 0)
      f == 2 * a + 2 * b + k
  IN IF f % 4 \in {0, 1} THEN 0 ELSE 1

\* Python's f % 4 == 0 on a possibly negative f: the remainder is in 0..3
row_sum(h, i, a, b, n) ==
  LET k == row_sum_k(h, i, n, 0, 0)
      f == 2 * a + 2 * b + k
  IN IF f % 4 = 0 THEN 0 ELSE 1

\* row_sum reads h[j], h[j+N], i[j], i[j+N] for j < N: numpy raises IndexError
\* when an index is past the end of the row
row_sum_IndexError(h, i, n) ==
  \E j \in 0..n-1 : j + n >= Cardinality(DOMAIN h) \/ j + n >= Cardinality(DOMAIN i)

\* --------------------------------------------------------------- REF_binary
\* find_pivot that looks at the current row only and gives the column up
find_pivot_current_only(M, p, j) == IF M[p][j] = 0 THEN n_rows(M) ELSE p

\* the while loop: the first row at or below p with a 1 in column j, or n_rows
RECURSIVE find_pivot(_, _, _)
find_pivot(M, p, j) ==
  IF p < n_rows(M) /\ M[p][j] = 0 THEN find_pivot(M, p + 1, j) ELSE p

\* the swap written A[a], A[b] = A[b], A[a]: on numpy row views both rows end
\* up holding the old row b
swap_rows_aliased(M, a, b) == [M EXCEPT ![a] = M[b], ![b] = M[b]]

\* A[[current_row, pivot_row]] = A[[pivot_row, current_row]], and the same
\* exchange of two signs through the temporary a
swap_rows(M, a, b) == [M EXCEPT ![a] = M[b], ![b] = M[a]]

\* the row update with | in place of the addition modulo 2
add_rows_or(u, v) == [c \in DOMAIN u |-> IF u[c] + v[c] > 0 THEN 1 ELSE 0]

\* (A[i] + A[pivot_row]) % 2
add_rows(u, v) == [c \in DOMAIN u |-> (u[c] + v[c]) % 2]

\* the elimination loop over the rows i, i+1, .., n_rows-1 below the pivot row
RECURSIVE eliminate(_, _, _, _, _)
eliminate(st, i, j, pivot_row, n) ==
  IF i >= n_rows(st.A) \/ st.err # "none" THEN st
  ELSE IF st.A[i][j] = 1
    THEN LET Ai == add_rows(st.A[i], st.A[pivot_row])
             A2 == [st.A EXCEPT ![i] = Ai]
         IN IF row_sum_IndexError(Ai, A2[pivot_row], n)
              THEN [st EXCEPT !.A = A2, !.nelim = @ + 1, !.err = "IndexError"]
              ELSE eliminate(
                     [st EXCEPT !.A = A2, !.nelim = @ + 1,
                        !.signs = [@ EXCEPT ![i] =
                           row_sum(Ai, A2[pivot_row], st.signs[i], st.signs[pivot_row], n)]],
                     i + 1, j, pivot_row, n)
    ELSE eliminate(st, i + 1, j, pivot_row, n)

\* the loop over the columns j, j+1, .., n_cols-1
RECURSIVE REF_columns(_, _, _)
REF_columns(st, j, n) ==
  IF j >= n_cols(st.A) \/ st.err # "none" THEN st
  ELSE IF st.current_row >= n_rows(st.A) THEN st
  ELSE LET pivot_row == find_pivot(st.A, st.current_row, j)
       IN IF pivot_row = n_rows(st.A) THEN REF_columns(st, j + 1, n)
          ELSE LET swapped ==
                     [st EXCEPT !.A = swap_rows(@, st.current_row, pivot_row),
                                !.signs = swap_rows(@, st.current_row, pivot_row),
                                !.nswap = IF pivot_row = st.current_row THEN @ ELSE @ + 1,
                                !.current_row = @ + 1]
               IN REF_columns(
                    eliminate(swapped, swapped.current_row, j, st.current_row, n),
                    j + 1, n)

REF_binary(M, sg, n) ==
  REF_columns([A |-> M, signs |-> sg, current_row |-> 0,
               nswap |-> 0, nelim |-> 0, err |-> "none"], 0, n)

\* ------------------------------------------------------- rank, xs, the cut
\* entropy.gf2_rank: the elimination of REF_binary without sign tracking; the
\* rank is the number of pivots found
gf2_rank(M) ==
  IF n_rows(M) = 0 THEN 0
  ELSE REF_columns([A |-> M, signs |-> [r \in DOMAIN M |-> 0], current_row |-> 0,
                    nswap |-> 0, nelim |-> 0, err |-> "none"], 0, 0).current_row

\* xs taking the last len(binMat) columns, the Z part
xs_last_columns(binMat) ==
  [r \in DOMAIN binMat |->
     [c \in 0..n_rows(binMat)-1 |-> binMat[r][n_rows(binMat) + c]]]

\* xs: the first len(binMat) columns of binMat
xs(binMat) ==
  [r \in DOMAIN binMat |-> [c \in 0..n_rows(binMat)-1 |-> binMat[r][c]]]

\* entropy.getCutStabilizers: the X and the Z columns of the trailing c qubits
getCutStabilizers(mat, c) ==
  LET n == n_rows(mat)
  IN [r \in DOMAIN mat |->
        [q \in 0..2*c-1 |-> IF q < c THEN mat[r][n - c + q]
                            ELSE mat[r][n + n - c + (q - c)]]]

\* the entropy without the subtraction of cut
cut_entropy_rank_only(mat, c) == gf2_rank(getCutStabilizers(mat, c))

\* SA = entropy.gf2_rank(b3.copy()) - cut
cut_entropy(mat, c) == gf2_rank(getCutStabilizers(mat, c)) - c

\* ------------------------------------------------------------ one OTOC sample
RECURSIVE Pow2(_)
Pow2(e) == IF e <= 0 THEN 1 ELSE 2 * Pow2(e - 1)

\* any_sign on signs4 = signs3[:size2], the top rows
any_sign_top(signs3, rk, sz) ==
  IF \E k \in 0..sz-1 : signs3[k] = 1 THEN 1 ELSE 0

\* signs4 = signs3[rank:]; Ans = 1 when one of signs4[0..size2-1] is 1
any_sign(signs3, rk, sz) ==
  IF \E k \in 0..sz-1 : signs3[rk + k] = 1 THEN 1 ELSE 0

\* amount with the test of Ans the wrong way round
amount_inverted(ans, rk, n, rp) ==
  IF ans = 0 THEN [sq |-> 0, over |-> 1]
  ELSE [sq |-> Pow2(n - rk), over |-> rp]

\* The amount added to v[int(i/res)]: 0 when Ans = 1 and (2**(-rank/2))/rep
\* otherwise. The real number is kept exactly as two integers: the amount is
\* sqrt(sq / 2^n) / over, so sq = 0 is 0 and sq = 2^(n-rank) is 2**(-rank/2).
amount(ans, rk, n, rp) ==
  IF ans = 1 THEN [sq |-> 0, over |-> 1]
  ELSE [sq |-> Pow2(n - rk), over |-> rp]

\* the body of "if (i % res) == 0" from the call of REF_binary on
OTOC_sample(bMat, signs3, n, rp) ==
  LET r == REF_binary(bMat, signs3, n)
      rk == gf2_rank(xs(r.A))
      sz == n - rk
      ans == any_sign(r.signs, rk, sz)
  IN [REF |-> r.A, signs3 |-> r.signs, current_row |-> r.current_row,
      nswap |-> r.nswap, nelim |-> r.nelim,
      rank |-> rk, size2 |-> sz, Ans |-> ans,
      sample |-> amount(ans, rk, n, rp)]

\* ------------------------------------- the simulator, one gate per qubit
\* A circuit is one gate of "I", "X", "Y", "Z", "H", "S" on each qubit. The
\* tableau of a one-qubit Clifford U is the pair of signed Paulis U X U^-1 and
\* U Z U^-1; a signed Pauli is [neg, l], neg = 1 for the sign -1.
Gates == {"I", "X", "Y", "Z", "H", "S"}
\* the gates the evolved circuit s does on a qubit: under s**-1 * Op * s a
\* Pauli gate of s changes no output of a Pauli Op, so one Pauli gate is kept
CircuitGates == {"I", "X", "H", "S"}
Letters == {"X", "Y", "Z"}
SignedPaulis == [neg : Bit, l : Letters]
Tableaus1 == {t \in [x : SignedPaulis, z : SignedPaulis] : t.x.l # t.z.l}

gate_tableau(gt) ==
  CASE gt = "I" -> [x |-> [neg |-> 0, l |-> "X"], z |-> [neg |-> 0, l |-> "Z"]]
    [] gt = "X" -> [x |-> [neg |-> 0, l |-> "X"], z |-> [neg |-> 1, l |-> "Z"]]
    [] gt = "Y" -> [x |-> [neg |-> 1, l |-> "X"], z |-> [neg |-> 1, l |-> "Z"]]
    [] gt = "Z" -> [x |-> [neg |-> 1, l |-> "X"], z |-> [neg |-> 0, l |-> "Z"]]
    [] gt = "H" -> [x |-> [neg |-> 0, l |-> "Z"], z |-> [neg |-> 0, l |-> "X"]]
    [] gt = "S" -> [x |-> [neg |-> 0, l |-> "Y"], z |-> [neg |-> 0, l |-> "Z"]]

\* i * a * b for two different letters a, b is + or - the third letter:
\* iXZ = Y, iZY = X, iYX = Z, and the sign is - in the other order
ThirdLetter(a, b) == CHOOSE l \in Letters : l # a /\ l # b
ProductNeg(a, b) ==
  IF <<a, b>> \in {<<"X", "Z">>, <<"Z", "Y">>, <<"Y", "X">>} THEN 0 ELSE 1

\* the image of the signed Pauli p under the one-qubit tableau t (Y = iXZ)
apply_tableau(t, p) ==
  CASE p.l = "X" -> [neg |-> (p.neg + t.x.neg) % 2, l |-> t.x.l]
    [] p.l = "Z" -> [neg |-> (p.neg + t.z.neg) % 2, l |-> t.z.l]
    [] p.l = "Y" ->
         [neg |-> (p.neg + t.x.neg + t.z.neg + ProductNeg(t.x.l, t.z.l)) % 2,
          l |-> ThirdLetter(t.x.l, t.z.l)]

\* the simulator after s.do of the gates: the tableau of each qubit
tableau_of(gates) == [q \in DOMAIN gates |-> gate_tableau(gates[q])]

\* t1 * t2: the tableau that maps p to t1(t2(p))
tableau_mul(t1, t2) ==
  [q \in DOMAIN t1 |-> [x |-> apply_tableau(t1[q], t2[q].x),
                        z |-> apply_tableau(t1[q], t2[q].z)]]

\* the inverse of a one-qubit tableau: the tableau that maps its images of X
\* and Z back to +X and +Z
inverse1(u) ==
  CHOOSE w \in Tableaus1 :
    /\ apply_tableau(w, u.x) = [neg |-> 0, l |-> "X"]
    /\ apply_tableau(w, u.z) = [neg |-> 0, l |-> "Z"]

\* t ** -1, and current_inverse_tableau(): the tableau whose product with t
\* is the identity
tableau_inverse(t) == [q \in DOMAIN t |-> inverse1(t[q])]

\* tableau_tot = (tableau3 * tableau2) * tableau1
tableau_tot(s, op) ==
  LET current_inverse_s == tableau_inverse(tableau_of(s))
      current_inverse_Op == tableau_inverse(tableau_of(op))
      tableau1 == tableau_inverse(current_inverse_s)
      tableau2 == tableau_inverse(current_inverse_Op)
      tableau3 == current_inverse_s
  IN tableau_mul(tableau_mul(tableau3, tableau2), tableau1)

\* zs[k] = tableau_tot.z_output(k): the image of Z_k as a Pauli string, with
\* its sign (+1 or -1) and its letters
z_output(t, k) ==
  [sign |-> IF t[k].z.neg = 1 THEN -1 ELSE 1,
   letters |-> [q \in DOMAIN t |-> IF q = k THEN t[k].z.l ELSE "I"]]

\* entropy.binary_matrix: row k is the X bits then the Z bits of zs[k]
binary_matrix(zs) ==
  [k \in DOMAIN zs |->
     [c \in 0..2*Cardinality(DOMAIN zs)-1 |->
        LET n == Cardinality(DOMAIN zs)
            l == zs[k].letters[IF c < n THEN c ELSE c - n]
        IN IF c < n THEN (IF l \in {"X", "Y"} THEN 1 ELSE 0)
                    ELSE (IF l \in {"Z", "Y"} THEN 1 ELSE 0)]]

\* entropy.convert_signs: the sign +1 becomes the bit 0, -1 the bit 1
convert_signs(signs2) == [k \in DOMAIN signs2 |-> IF signs2[k] = 1 THEN 0 ELSE 1]

\* the lines from tableau1 to the amount added to v, for the circuits s, Op.
\* bMat and signs3 are arrays in memory: the comparison has their entries
\* computed once, before REF_binary reads them.
OTOC_timestep(s, op, n, rp) ==
  LET tot == tableau_tot(s, op)
      zs == [k \in DOMAIN tot |-> z_output(tot, k)]
      signs2 == [k \in DOMAIN zs |-> zs[k].sign]
      bMat == binary_matrix(zs)
      signs3 == convert_signs(signs2)
  IN IF bMat = bMat /\ signs3 = signs3
     THEN OTOC_sample(bMat, signs3, n, rp)
     ELSE OTOC_sample(binary_matrix(zs), convert_signs(signs2), n, rp)

\* ----------------------------------------------------- pure stabilizer states
\* the rows u, v of an n-qubit tableau commute: their symplectic product is 0
Commute(u, v, n) ==
  Cardinality({q \in 0..n-1 : u[q] * v[q + n] + u[q + n] * v[q] = 1}) % 2 = 0

\* what the simulator hands to the entropy code: n commuting, independent rows
IsStabilizerState(M, n) ==
  /\ \A a, b \in DOMAIN M : Commute(M[a], M[b], n)
  /\ gf2_rank(M) = n

\* ----------------------------------------------------------------- the steps
\* Step.__init__ turns None into "always", raises ValueError for any other
\* string than these four, and stores a value that is not a string as it is
Whens == {"first", "always", "even", "odd"}
NotAString == "<not a str>"

\* validate without the step_count > 0 test of 'even'
validate_even_at_zero(w, sc) ==
  IF w = "always" /\ sc > 0 THEN TRUE
  ELSE IF w = "first" /\ sc = 0 THEN TRUE
  ELSE IF w = "even" /\ sc % 2 = 0 THEN TRUE
  ELSE IF w = "odd" /\ sc % 2 = 1 /\ sc > 0 THEN TRUE
  ELSE FALSE

validate(w, sc) ==
  IF w = "always" /\ sc > 0 THEN TRUE
  ELSE IF w = "first" /\ sc = 0 THEN TRUE
  ELSE IF w = "even" /\ sc % 2 = 0 /\ sc > 0 THEN TRUE
  ELSE IF w = "odd" /\ sc % 2 = 1 /\ sc > 0 THEN TRUE
  ELSE FALSE

\* ------------------------------------------------------------------ actions
NoMatrix == <<>>
NoSample == [sq |-> 0, over |-> 1]

RefIdle ==
  /\ N = 0 /\ A = NoMatrix /\ signs = NoMatrix /\ inA = NoMatrix
  /\ inSigns = NoMatrix /\ origA = NoMatrix /\ origSigns = NoMatrix
  /\ current_row = 0 /\ nswap = 0 /\ nelim = 0 /\ err = "none" /\ calls = 0
RsIdle ==
  /\ rowh = NoMatrix /\ rowi = NoMatrix /\ rh = 0 /\ ri = 0 /\ qubit = 0
  /\ k_out = 0 /\ rs_out = 0 /\ g_out = 0
OtocIdle ==
  /\ rep = 1 /\ rank = 0 /\ size2 = 0 /\ Ans = 0 /\ sample = NoSample
  /\ s_gates = NoMatrix /\ Op_gates = NoMatrix
EntIdle == cut = 0 /\ SA = 0
\* a str value is kept as [kind |-> "str", chars |-> its letters]; None and a
\* value that is no str have their own kind and no letters
Str(cs) == [kind |-> "str", chars |-> cs]
None == [kind |-> "None", chars |-> <<>>]
NotAStr == [kind |-> "other", chars |-> <<>>]
Unset == [kind |-> "unset", chars |-> <<>>]
NoError == [kind |-> "none", step |-> 0]

SeqIdle ==
  /\ slow = 1 /\ classes = <<>> /\ op_arg = Unset /\ op_string = Unset
  /\ log = <<>> /\ step_err = NoError
DrvIdle ==
  /\ driver = "none" /\ T = 0 /\ res = 1 /\ v_arr = <<>> /\ w_arr = <<>>
  /\ adds = <<>>
  /\ drv_err = "none"
StepIdle ==
  when = "unset" /\ step_count = 0 /\ validated = FALSE /\ SeqIdle /\ DrvIdle

\* ------------------------------------------------------- the step classes
StepClasses ==
  {"IdStep", "Initialize", "ThreeQuarterStep", "AlternatingEven", "AlternatingOdd"}

\* the when each class hands to Step.__init__
when_of(cls) ==
  CASE cls \in {"IdStep", "Initialize"} -> "first"
    [] cls = "ThreeQuarterStep" -> "always"
    [] cls = "AlternatingEven" -> "even"
    [] cls = "AlternatingOdd" -> "odd"

\* the letters an op_string argument is made of: "Z" is a letter the assert
\* refuses, as it refuses "I" and every other one
OpLetters == {"X", "Y", "Z"}
OpStrings == UNION {[1..n -> OpLetters] : n \in 0..MaxLen}
OpArgs == {None, NotAStr} \cup {Str(cs) : cs \in OpStrings}

\* Initialize.prepare_op_string: the stored op_string, or the exception
prepare_op_string(n, arg) ==
  LET a == IF arg.kind = "None" THEN Str([q \in 1..n |-> "X"]) ELSE arg
  IN IF a.kind # "str" THEN [err |-> "ValueError", op_string |-> Unset]
     ELSE IF ~({a.chars[q] : q \in DOMAIN a.chars} \subseteq {"X", "Y"})
       THEN [err |-> "AssertionError", op_string |-> Unset]
     ELSE [err |-> "none", op_string |-> a]

\* StepSequence(N, [cls(N, ..), ..]): the steps are constructed in list order
\* and the first constructor that raises ends the construction
RECURSIVE construct(_, _, _, _)
construct(cs, j, n, arg) ==
  IF j > Len(cs) THEN [err |-> NoError, op_string |-> Unset]
  ELSE IF cs[j] = "Initialize"
    THEN LET p == prepare_op_string(n, arg)
             rest == construct(cs, j + 1, n, arg)
         IN IF p.err # "none"
              THEN [err |-> [kind |-> p.err, step |-> j], op_string |-> Unset]
              ELSE [err |-> rest.err,
                    op_string |-> IF rest.err.kind = "none" THEN p.op_string ELSE Unset]
    ELSE construct(cs, j + 1, n, arg)

\* s.do of one gate operation by step j of the sequence; a target is a qubit
\* index. st is the simulator s with the exception raised so far.
do(st, j, gt, targets) ==
  [st EXCEPT !.log = Append(@, [step |-> j, gate |-> gt, targets |-> targets])]

\* the operations gt(r[i]) for i = lo, lo+1, .., hi-1 done in turn
RECURSIVE do_each(_, _, _, _, _, _)
do_each(st, j, gt, r, lo, hi) ==
  IF lo >= hi THEN st ELSE do_each(do(st, j, gt, <<r[lo]>>), j, gt, r, lo + 1, hi)

\* the operations C3(r[i], r[m+i], r[2m+i]) for i = lo, .., hi-1 done in turn
RECURSIVE do_C3(_, _, _, _, _, _)
do_C3(st, j, r, m, lo, hi) ==
  IF lo >= hi THEN st
  ELSE do_C3(do(st, j, "C3", <<r[lo], r[m + lo], r[2 * m + lo]>>), j, r, m, lo + 1, hi)

raise(st, j, kind) == [st EXCEPT !.err = [kind |-> kind, step |-> j]]

\* IdStep.apply without the test of validate
IdStep_apply_always(st, j, n, sc) == do(st, j, "I", <<n - 1>>)

IdStep_apply(st, j, n, sc) ==
  IF validate("first", sc) THEN do(st, j, "I", <<n - 1>>) ELSE st

\* the X operations of Initialize.apply on the letters i, i+1, .. of op
RECURSIVE flip_letters(_, _, _, _, _)
flip_letters(st, j, op, i, letter) ==
  IF i >= Len(op.chars) THEN st
  ELSE flip_letters(IF op.chars[i + 1] = letter THEN do(st, j, "X", <<i>>) ELSE st,
                    j, op, i + 1, letter)

\* Initialize.apply flipping the qubits of the letter "X"
Initialize_apply_flips_X(st, j, op, sc, strict) ==
  IF validate("first", sc)
    THEN LET st1 == do(st, j, "I", <<Len(op.chars) - 1>>)
         IN IF Len(op.chars) = 0 /\ strict THEN raise(st1, j, "stim")
            ELSE flip_letters(st1, j, op, 0, "X")
    ELSE st

\* Initialize.apply: N = len(op_string); the circuit is I on [N - 1] and X on
\* every i whose letter is "Y". For an empty op_string the target of I is -1:
\* whether the library refuses it is not in the source (strict).
Initialize_apply(st, j, op, sc, strict) ==
  IF validate("first", sc)
    THEN LET st1 == do(st, j, "I", <<Len(op.chars) - 1>>)
         IN IF Len(op.chars) = 0 /\ strict THEN raise(st1, j, "stim")
            ELSE flip_letters(st1, j, op, 0, "Y")
    ELSE st

\* r is the shuffled list range(N) as a function on 0..N-1
ThreeQuarterStep_apply(st, j, n, sl, r, sc) ==
  IF validate("always", sc)
    THEN LET acted_on == n \div sl
             quarter == acted_on \div 4
         IN IF quarter = 0 THEN raise(st, j, "ValueError")
            ELSE LET zh == do_each(st, j, "ZH", r, 3 * quarter, acted_on)
                     first == do(zh, j, "C3", <<r[0], r[quarter], r[2 * quarter]>>)
                     c3 == do_C3(first, j, r, quarter, 1, quarter)
                 IN do(c3, j, "I", <<n - 1>>)
    ELSE st

\* the shuffled list range(N - 1): the shuffled range(N) without N - 1, the
\* others in the order they have
RECURSIVE without_last(_, _, _)
without_last(r, n, i) ==
  IF i >= n THEN <<>>
  ELSE (IF r[i] = n - 1 THEN <<>> ELSE <<r[i]>>) \o without_last(r, n, i + 1)

\* r is the shuffled list range(N - 1); r[i] raises IndexError for i past it
AlternatingEven_apply(st, j, n, sl, r, sc) ==
  IF validate("even", sc)
    THEN LET acted_on == n \div sl
             len_r == n - 1
             r0 == [i \in 0..len_r-1 |-> r[i + 1]]
         IN IF acted_on > len_r
              THEN raise(do_each(st, j, "ZH", r0, 0, len_r), j, "IndexError")
              ELSE do_each(st, j, "ZH", r0, 0, acted_on)
    ELSE st

\* r is the shuffled list range(N). With third = 0 the first C3 is handed the
\* same qubit three times: whether gates.C3 or the simulator refuses it is not
\* in the source (strict).
AlternatingOdd_apply(st, j, n, sl, r, sc, strict) ==
  IF validate("odd", sc)
    THEN LET acted_on == n \div sl
             third == acted_on \div 3
             first == do(st, j, "C3", <<r[0], r[third], r[2 * third]>>)
         IN IF third = 0 /\ strict THEN raise(first, j, "stim")
            ELSE do_C3(first, j, r, third, 1, third)
    ELSE st

\* StepSequence.apply: s = step.apply(s, step_count) for the steps in list
\* order, up to the first that raises; shuffles[j] is the shuffle step j draws
RECURSIVE StepSequence_apply(_, _, _, _, _, _, _, _, _)
StepSequence_apply(st, cs, j, n, sl, op, sc, shuffles, strict) ==
  IF j > Len(cs) \/ st.err.kind # "none" THEN st
  ELSE LET cls == cs[j]
           r == shuffles[j]
           st1 ==
             CASE cls = "IdStep" -> IdStep_apply(st, j, n, sc)
               [] cls = "Initialize" -> Initialize_apply(st, j, op, sc, strict)
               [] cls = "ThreeQuarterStep" -> ThreeQuarterStep_apply(st, j, n, sl, r, sc)
               [] cls = "AlternatingEven" ->
                    AlternatingEven_apply(st, j, n, sl, without_last(r, n, 0), sc)
               [] cls = "AlternatingOdd" -> AlternatingOdd_apply(st, j, n, sl, r, sc, strict)
       IN StepSequence_apply(st1, cs, j + 1, n, sl, op, sc, shuffles, strict)

\* peek_observable_expectation of Z and of X on qubit q, for a fresh simulator
\* on which the operations of lg, all of them I or X, were done: the state is
\* a basis state, with qubit q at 1 after an odd number of X on q
flipped(lg, q) ==
  Cardinality({e \in DOMAIN lg : lg[e].gate = "X" /\ lg[e].targets = <<q>>}) % 2 = 1
expectation(letter, lg, q) ==
  CASE letter = "Z" -> IF flipped(lg, q) THEN -1 ELSE 1
    [] letter = "X" -> 0

\* the inputs of REF_binary: a binary matrix of one of the shapes, its sign
\* bits, and the declared N
InitRef(shapes) ==
  /\ pc = "input"
  /\ N \in 1..MaxN
  /\ \E sh \in shapes : A \in Matrices(sh[1], sh[2]) /\ signs \in SignVectors(sh[1])
  /\ inA = A /\ inSigns = signs /\ origA = A /\ origSigns = signs
  /\ current_row = 0 /\ nswap = 0 /\ nelim = 0 /\ err = "none" /\ calls = 0
  /\ RsIdle /\ OtocIdle /\ EntIdle /\ StepIdle

ProperShapes == {<<n, 2 * n>> : n \in 1..MaxN}
FreeShapes ==
  {sh \in (1..MaxCells) \X (1..MaxCells) : sh[1] * sh[2] <= MaxCells}

\* every N x 2N binary matrix with every sign vector, N in 1..MaxN
Init ==
  /\ InitRef(ProperShapes)
  /\ n_rows(A) = N /\ n_cols(A) = 2 * N

\* matrices of any small shape, whatever the declared N
InitDim == InitRef(FreeShapes)

\* A, signs = REF_binary(A, signs, N): both arrays are mutated in place, so a
\* call that raises leaves them as they were when it raised
Reduce ==
  /\ pc \in {"input", "permuted", "reduced"}
  /\ calls < 2
  /\ err = "none"
  /\ LET r == REF_binary(A, signs, N)
     IN /\ A' = r.A /\ signs' = r.signs /\ current_row' = r.current_row
        /\ nswap' = r.nswap /\ nelim' = r.nelim /\ err' = r.err
  /\ inA' = A /\ inSigns' = signs
  /\ calls' = calls + 1
  /\ pc' = "reduced"
  /\ UNCHANGED <<N, origA, origSigns, rsVars, otocVars, entVars, stepVars>>

\* the caller hands REF_binary the same rows in another order, with the signs
\* permuted alike
Permute ==
  /\ pc = "input"
  /\ \E p \in Permutations(DOMAIN A) :
       /\ \E x \in DOMAIN A : p[x] # x
       /\ A' = [x \in DOMAIN A |-> A[p[x]]]
       /\ signs' = [x \in DOMAIN A |-> signs[p[x]]]
  /\ inA' = A' /\ inSigns' = signs'
  /\ pc' = "permuted"
  /\ UNCHANGED <<N, origA, origSigns, current_row, nswap, nelim, err, calls,
                 rsVars, otocVars, entVars, stepVars>>

\* one sampled timestep of an OTOC driver on the encoded bMat, signs3
OTOCSample ==
  /\ pc = "input"
  /\ \E rp \in 1..MaxRep :
     LET o == OTOC_sample(A, signs, N, rp)
     IN /\ rep' = rp
        /\ A' = o.REF /\ signs' = o.signs3 /\ current_row' = o.current_row
        /\ nswap' = o.nswap /\ nelim' = o.nelim
        /\ rank' = o.rank /\ size2' = o.size2 /\ Ans' = o.Ans /\ sample' = o.sample
  /\ inA' = A /\ inSigns' = signs
  /\ calls' = calls + 1
  /\ pc' = "otoc"
  /\ UNCHANGED <<N, origA, origSigns, err, s_gates, Op_gates,
                 rsVars, entVars, stepVars>>

Next == Reduce \/ Permute \/ OTOCSample

Spec == Init /\ [][Next]_vars

NextDim == Reduce

SpecDim == InitDim /\ [][NextDim]_vars

\* ---- row_sum and g on their own: two rows of 2N bits and two sign bits
InitRowSum ==
  /\ pc = "args"
  /\ N \in 1..MaxN
  /\ rowh \in [0..2*N-1 -> Bit] /\ rowi \in [0..2*N-1 -> Bit]
  /\ rh \in Bit /\ ri \in Bit
  /\ qubit = 0 /\ k_out = 0 /\ rs_out = 0 /\ g_out = 0
  /\ A = NoMatrix /\ signs = NoMatrix /\ inA = NoMatrix
  /\ inSigns = NoMatrix /\ origA = NoMatrix /\ origSigns = NoMatrix
  /\ current_row = 0 /\ nswap = 0 /\ nelim = 0 /\ err = "none" /\ calls = 0
  /\ OtocIdle /\ EntIdle /\ StepIdle

\* rh = row_sum(h, i, rh, ri, N); k is the local k when the loop ended
CallRowSum ==
  /\ pc = "args"
  /\ k_out' = row_sum_k(rowh, rowi, N, 0, 0)
  /\ rs_out' = row_sum(rowh, rowi, rh, ri, N)
  /\ pc' = "row_sum"
  /\ UNCHANGED <<refVars, rowh, rowi, rh, ri, qubit, g_out,
                 otocVars, entVars, stepVars>>

\* the call g(i[j], i[j+N], h[j], h[j+N]) of row_sum's iteration j
CallG ==
  /\ pc = "args"
  /\ \E j \in 0..N-1 :
       /\ qubit' = j
       /\ g_out' = g(rowi[j], rowi[j + N], rowh[j], rowh[j + N])
  /\ pc' = "g"
  /\ UNCHANGED <<refVars, rowh, rowi, rh, ri, k_out, rs_out,
                 otocVars, entVars, stepVars>>

\* the two lines of the elimination loop on a pair of rows: A[i] is replaced
\* by (A[i] + A[pivot_row]) % 2 and row_sum is then called on the new A[i];
\* rowh stays the row as it was before the update
CallRowSumUpdated ==
  /\ pc = "args"
  /\ LET Ai == add_rows(rowh, rowi)
     IN /\ k_out' = row_sum_k(Ai, rowi, N, 0, 0)
        /\ rs_out' = row_sum(Ai, rowi, rh, ri, N)
  /\ pc' = "row_sum_updated"
  /\ UNCHANGED <<refVars, rowh, rowi, rh, ri, qubit, g_out,
                 otocVars, entVars, stepVars>>

NextRowSum == CallRowSum \/ CallG \/ CallRowSumUpdated

SpecRowSum == InitRowSum /\ [][NextRowSum]_vars

\* ---- one sampled timestep of an OTOC driver, for one-gate-per-qubit s and Op
InitOTOC ==
  /\ pc = "circuits"
  /\ N \in 1..MaxN
  /\ s_gates \in [0..N-1 -> CircuitGates] /\ Op_gates \in [0..N-1 -> Gates]
  /\ rep \in 1..MaxRep
  /\ rank = 0 /\ size2 = 0 /\ Ans = 0 /\ sample = NoSample
  /\ A = NoMatrix /\ signs = NoMatrix /\ inA = NoMatrix
  /\ inSigns = NoMatrix /\ origA = NoMatrix /\ origSigns = NoMatrix
  /\ current_row = 0 /\ nswap = 0 /\ nelim = 0 /\ err = "none" /\ calls = 0
  /\ RsIdle /\ EntIdle /\ StepIdle

OTOCTimestep ==
  /\ pc = "circuits"
  /\ LET o == OTOC_timestep(s_gates, Op_gates, N, rep)
     IN /\ A' = o.REF /\ signs' = o.signs3 /\ current_row' = o.current_row
        /\ nswap' = o.nswap /\ nelim' = o.nelim
        /\ rank' = o.rank /\ size2' = o.size2 /\ Ans' = o.Ans /\ sample' = o.sample
  /\ calls' = calls + 1
  /\ pc' = "otoc"
  /\ UNCHANGED <<N, inA, inSigns, origA, origSigns, err, rep, s_gates, Op_gates,
                 rsVars, entVars, stepVars>>

NextOTOC == OTOCTimestep

SpecOTOC == InitOTOC /\ [][NextOTOC]_vars

\* ---- the entropy of a pure stabilizer state across a cut
InitEntropy ==
  /\ pc = "state"
  /\ N \in 1..MaxN
  /\ A \in Matrices(N, 2 * N)
  /\ IsStabilizerState(A, N)
  /\ signs = [r \in 0..N-1 |-> 0]
  /\ inA = A /\ inSigns = signs /\ origA = A /\ origSigns = signs
  /\ current_row = 0 /\ nswap = 0 /\ nelim = 0 /\ err = "none" /\ calls = 0
  /\ cut = 0 /\ SA = 0
  /\ RsIdle /\ OtocIdle /\ StepIdle

\* the entropy lines of a run* driver for one cut
Entropy ==
  /\ pc = "state"
  /\ \E c \in 0..N : cut' = c /\ SA' = cut_entropy(A, c)
  /\ pc' = "entropy"
  /\ UNCHANGED <<refVars, rsVars, otocVars, stepVars>>

NextEntropy == Entropy

SpecEntropy == InitEntropy /\ [][NextEntropy]_vars

\* ---- a Step and the step counter of the loop that applies it
InitStep ==
  /\ pc = "step"
  /\ when \in Whens \cup {NotAString}
  /\ step_count = 0 /\ validated = FALSE /\ SeqIdle /\ DrvIdle
  /\ RefIdle /\ RsIdle /\ OtocIdle /\ EntIdle

Validate ==
  /\ pc = "step"
  /\ validated' = validate(when, step_count)
  /\ pc' = "validated"
  /\ UNCHANGED <<refVars, rsVars, otocVars, entVars, when, step_count, seqVars, drvVars>>

NextStepCount ==
  /\ pc \in {"step", "validated"}
  /\ step_count < MaxStep
  /\ step_count' = step_count + 1
  /\ validated' = FALSE
  /\ pc' = "step"
  /\ UNCHANGED <<refVars, rsVars, otocVars, entVars, when, seqVars, drvVars>>

NextStep == Validate \/ NextStepCount

SpecStep == InitStep /\ [][NextStep]_vars

\* ---- the drivers: the arrays v, w and the loops over k and i
OTOCDrivers == {"OTOC_FS3_Np", "OTOC_Rand1", "OTOC_LocInt"}
RunDrivers == {"runFS1", "runFS2", "runFS3", "runFS3_Np", "runLocInt"}
Drivers == OTOCDrivers \cup RunDrivers

\* np.zeros(size), and w[m] = m*res for m in range(size)
zeros(size) == [m \in 0..size-1 |-> 0]
timesteps(size, rs) == [m \in 0..size-1 |-> m * rs]

\* the sampled timestep i of repetition k: v[int(i/res)] += sample/rep, one
\* unit of 1/rep per sample. runFS1 computes int(i/l) with a name l that is
\* bound nowhere; an index past the end of v raises IndexError.
add_sample(st, name, k, i, rs) ==
  IF name = "runFS1" THEN [st EXCEPT !.err = "NameError"]
  ELSE IF i \div rs >= Cardinality(DOMAIN st.v) THEN [st EXCEPT !.err = "IndexError"]
  ELSE [st EXCEPT !.v[i \div rs] = @ + 1, !.adds = Append(@, <<k, i>>)]

\* for k in range(0, rep): for i in range(0, T): if (i % res) == 0: ..
RECURSIVE driver_loops(_, _, _, _, _, _, _)
driver_loops(st, name, k, i, tt, rp, rs) ==
  IF k >= rp \/ st.err # "none" THEN st
  ELSE IF i >= tt THEN driver_loops(st, name, k + 1, 0, tt, rp, rs)
  ELSE driver_loops(IF i % rs = 0 THEN add_sample(st, name, k, i, rs) ELSE st,
                    name, k, i + 1, tt, rp, rs)

\* a driver from its first line to its return or to the exception: the OTOC
\* drivers fill w before the loops, the run* drivers after them
run_driver(name, tt, rp, rs) ==
  LET size == tt \div rs
      st0 == [v |-> zeros(size),
              w |-> IF name \in OTOCDrivers THEN timesteps(size, rs) ELSE zeros(size),
              adds |-> <<>>, err |-> "none"]
      st1 == driver_loops(st0, name, 0, 0, tt, rp, rs)
  IN IF st1.err = "none" THEN [st1 EXCEPT !.w = timesteps(size, rs)] ELSE st1

InitDriver ==
  /\ pc = "driver_args"
  /\ driver \in Drivers
  /\ T \in 1..MaxT /\ res \in 1..MaxRes /\ rep \in 1..MaxRep
  /\ v_arr = <<>> /\ w_arr = <<>> /\ adds = <<>> /\ drv_err = "none"
  /\ rank = 0 /\ size2 = 0 /\ Ans = 0 /\ sample = NoSample
  /\ s_gates = NoMatrix /\ Op_gates = NoMatrix
  /\ when = "unset" /\ step_count = 0 /\ validated = FALSE /\ SeqIdle
  /\ RefIdle /\ RsIdle /\ EntIdle

\* v, w = driver(N, T, rep, res, ..)
RunDriver ==
  /\ pc = "driver_args"
  /\ LET st == run_driver(driver, T, rep, res)
     IN /\ v_arr' = st.v /\ w_arr' = st.w /\ adds' = st.adds /\ drv_err' = st.err
        /\ pc' = IF st.err = "none" THEN "returned" ELSE "raised"
  /\ UNCHANGED <<refVars, rsVars, otocVars, entVars, when, step_count, validated,
                 seqVars, driver, T, res>>

NextDriver == RunDriver

SpecDriver == InitDriver /\ [][NextDriver]_vars

\* ---- a StepSequence: its construction, then one apply on a fresh simulator
SeqLens == {1, 2}
Shuffles(n) == Permutations(0..n-1)
Unshuffled(n) == [i \in 0..n-1 |-> i]

\* the shuffles step j can draw: a step that does not validate, or that is an
\* IdStep or an Initialize, draws none
shuffles_of(cs, j, n, sc) ==
  IF j <= Len(cs) /\ cs[j] \in {"ThreeQuarterStep", "AlternatingEven", "AlternatingOdd"}
       /\ validate(when_of(cs[j]), sc)
    THEN Shuffles(n) ELSE {Unshuffled(n)}

InitSteps ==
  /\ pc = "step_args"
  /\ N \in 1..MaxQubits
  /\ slow \in 1..MaxSlow
  /\ \E len \in SeqLens : classes \in [1..len -> StepClasses]
  /\ op_arg \in IF \E j \in DOMAIN classes : classes[j] = "Initialize"
                  THEN OpArgs ELSE {None}
  /\ step_count \in 0..MaxCount
  /\ op_string = Unset /\ log = <<>> /\ step_err = NoError
  /\ when = "unset" /\ validated = FALSE /\ DrvIdle
  /\ A = NoMatrix /\ signs = NoMatrix /\ inA = NoMatrix
  /\ inSigns = NoMatrix /\ origA = NoMatrix /\ origSigns = NoMatrix
  /\ current_row = 0 /\ nswap = 0 /\ nelim = 0 /\ err = "none" /\ calls = 0
  /\ RsIdle /\ OtocIdle /\ EntIdle

\* StepSequence(N, [..]) with its steps constructed in the list
Construct ==
  /\ pc = "step_args"
  /\ LET c == construct(classes, 1, N, op_arg)
     IN /\ step_err' = c.err
        /\ op_string' = c.op_string
        /\ pc' = IF c.err.kind = "none" THEN "built" ELSE "ctor_raised"
  /\ UNCHANGED <<refVars, rsVars, otocVars, entVars, when, step_count, validated,
                 slow, classes, op_arg, log, drvVars>>

\* StepSequence.apply(s, step_count) on a fresh simulator s
ApplySequence ==
  /\ pc = "built"
  /\ \E p1 \in shuffles_of(classes, 1, N, step_count),
        p2 \in shuffles_of(classes, 2, N, step_count),
        strict \in BOOLEAN :
       LET st == StepSequence_apply([log |-> <<>>, err |-> NoError], classes, 1, N,
                                    slow, op_string, step_count, <<p1, p2>>, strict)
       IN log' = st.log /\ step_err' = st.err
  /\ pc' = "applied"
  /\ UNCHANGED <<refVars, rsVars, otocVars, entVars, when, step_count, validated,
                 slow, classes, op_arg, op_string, drvVars>>

NextSteps == Construct \/ ApplySequence

SpecSteps == InitSteps /\ [][NextSteps]_vars

\* =================================================================== claims
\* ---- what the claims speak of, defined apart from the code's operators
ZeroRow(v) == \A c \in DOMAIN v : v[c] = 0

\* the column of the leading 1 of a non-zero row
Lead(v) == CHOOSE c \in DOMAIN v : v[c] = 1 /\ \A d \in DOMAIN v : d < c => v[d] = 0

\* M is in row echelon form with exactly the rows 0..r-1 as its pivot rows
RowEchelon(M, r) ==
  /\ \A k \in 0..r-1 : ~ZeroRow(M[k])
  /\ \A k \in r..n_rows(M)-1 : ZeroRow(M[k])
  /\ \A k \in 0..r-2 : Lead(M[k]) < Lead(M[k + 1])
  /\ \A k \in 0..r-1 : \A m \in k+1..n_rows(M)-1 : M[m][Lead(M[k])] = 0

\* the GF(2) rank of M: the row space of M has 2^rank vectors
XorRows(M, S) == [c \in DOMAIN M[0] |-> Cardinality({r \in S : M[r][c] = 1}) % 2]
RowSpan(M) == {XorRows(M, S) : S \in SUBSET DOMAIN M}
Rank(M) == CHOOSE d \in 0..n_rows(M) : Pow2(d) = Cardinality(RowSpan(M))

Min(a, b) == IF a <= b THEN a ELSE b

\* C1: REF_binary returns a matrix in row echelon form (pivot rows first, with
\* strictly increasing leading columns, zeros below every pivot, zero rows
\* last), and the number of pivot rows is the GF(2) rank of the input matrix.
C1_RowEchelonForm ==
  pc = "reduced" =>
    /\ err = "none"
    /\ RowEchelon(A, current_row)
    /\ current_row = Rank(inA)

\* C1 witness: a first reduction that eliminated a row to zero, so that the
\* rank is below the number of rows
C1_Witness ==
  /\ pc = "reduced" /\ calls = 1 /\ N = MaxN
  /\ nelim > 0 /\ current_row < N /\ current_row > 0

\* C5: applying REF_binary to its own output swaps no rows, eliminates nothing,
\* updates no sign, and leaves the matrix and the sign vector unchanged.
C5_Idempotent ==
  calls = 2 =>
    /\ A = inA /\ signs = inSigns
    /\ nswap = 0 /\ nelim = 0 /\ err = "none"

\* C5 witness: a second reduction after a first one that changed both the
\* matrix and the signs
C5_Witness ==
  /\ calls = 2 /\ pc = "reduced"
  /\ A # origA /\ signs # origSigns

\* C6: the number of pivot rows REF_binary finds is the same on the rows in
\* any other order (with the signs permuted alike).
C6_RankPermutationInvariant ==
  (pc = "reduced" /\ calls = 1) =>
    current_row = REF_binary(origA, origSigns, N).current_row

\* C6 witness: the reduction of a matrix whose rows were really reordered, of
\* rank neither 0 nor full
C6_Witness ==
  /\ pc = "reduced" /\ calls = 1
  /\ inA # origA
  /\ current_row > 0 /\ current_row < N

\* C4: the amount one OTOC sample adds is 0 when a sign at a row index
\* rank..N-1 is 1 and 2^(-rank/2)/rep otherwise, rank being the GF(2) rank of
\* the first N columns of the reduced matrix; so it lies between 0 and 1/rep.
C4_SampleContribution ==
  pc = "otoc" =>
    /\ rank = Rank(xs(A))
    /\ sample = IF \E k \in rank..N-1 : signs[k] = 1
                  THEN [sq |-> 0, over |-> 1]
                  ELSE [sq |-> Pow2(N - rank), over |-> rep]
    /\ sample.sq >= 0 /\ sample.sq <= Pow2(N) /\ sample.over >= 1
    /\ sample.sq > 0 => sample.over = rep

\* C4 witness: a sample of rank strictly between 0 and N that is not zero
\* although a row above index rank carries sign 1, with rep > 1
C4_Witness ==
  /\ pc = "otoc" /\ rank > 0 /\ rank < N /\ rep > 1
  /\ sample.sq = Pow2(N - rank)
  /\ \E k \in 0..rank-1 : signs[k] = 1

\* the sum over the qubits 0..j of g(first's bits, second's bits)
RECURSIVE PhaseSum(_, _, _, _)
PhaseSum(first, second, n, j) ==
  IF j < 0 THEN 0
  ELSE PhaseSum(first, second, n, j - 1)
         + g(first[j], first[j + n], second[j], second[j + n])

\* C2: row_sum returns 0 exactly when (2*rh + 2*ri + k) mod 4 = 0 and 1
\* otherwise, k being the sum over j < N of g(i[j], i[j+N], h[j], h[j+N]); the
\* result is a bit, also when k is negative.
C2_RowSumRule ==
  pc = "row_sum" =>
    /\ k_out = PhaseSum(rowi, rowh, N, N - 1)
    /\ rs_out \in Bit
    /\ rs_out = 0 <=> (2 * rh + 2 * ri + PhaseSum(rowi, rowh, N, N - 1)) % 4 = 0

\* C2 witness: a call whose k is negative and whose result is 0
C2_Witness == pc = "row_sum" /\ k_out < 0 /\ rs_out = 0

\* the table of the phase contribution, by case on (x1, z1)
PhaseTable(x1, z1, x2, z2) ==
  CASE x1 = 0 /\ z1 = 0 -> 0
    [] x1 = 0 /\ z1 = 1 -> x2 * (1 - 2 * z2)
    [] x1 = 1 /\ z1 = 0 -> z2 * (2 * x2 - 1)
    [] x1 = 1 /\ z1 = 1 -> z2 - x2

C7_ValidateTable ==
  pc = "validated" =>
    (validated <=>
       \/ when = "always" /\ step_count > 0
       \/ when = "first" /\ step_count = 0
       \/ when = "even" /\ step_count % 2 = 0 /\ step_count > 0
       \/ when = "odd" /\ step_count % 2 = 1)

\* C7 witness: 'odd' is accepted at the last odd step_count, after 'even' was
\* refused at 0 and accepted at 2 in other runs of the same counter
C7_Witness ==
  /\ pc = "validated" /\ when = "odd" /\ step_count > 2
  /\ step_count % 2 = 1 /\ validated
  /\ ~validate("even", 0) /\ validate("even", 2)

\* the evolved circuit applies no gate
IdentityCircuit == \A q \in DOMAIN s_gates : s_gates[q] = "I"

\* C8 as claimed: with N = 1, the identity as evolved circuit and X on qubit 0
\* as perturbation, the sample is exactly 1.
C8_SampleIsOne ==
  (pc = "otoc" /\ N = 1 /\ IdentityCircuit /\ Op_gates[0] = "X") =>
    sample.sq = Pow2(N) /\ Ans = 0

\* C8 amended: in that scenario the rank is 0 but the one row carries sign 1
\* (X flips the sign of Z_0), so the sample is exactly 0; it is exactly 1 when
\* the perturbation on qubit 0 is the identity or Z.
C8_SampleIsZero ==
  (pc = "otoc" /\ N = 1 /\ IdentityCircuit) =>
    /\ Op_gates[0] = "X" =>
         (rank = 0 /\ size2 = 1 /\ signs[0] = 1 /\ Ans = 1 /\ sample.sq = 0)
    /\ Op_gates[0] \in {"I", "Z"} =>
         (rank = 0 /\ size2 = 1 /\ Ans = 0 /\ sample.sq = Pow2(N))

\* C8 witness: the scenario of the claim, sampled
C8_Witness ==
  /\ pc = "otoc" /\ N = 1 /\ IdentityCircuit /\ Op_gates[0] = "X"
  /\ sample.sq = 0

C10_InvalidDimension ==
  (pc = "reduced" /\ (n_rows(inA) # N \/ n_cols(inA) # 2 * N)) =>
    /\ err = "InvalidDimension"
    /\ A = inA /\ signs = inSigns

\* ---- direct multiplication of one-qubit Pauli operators
\* the Pauli letter of the bits (x, z)
PauliOf(x, z) ==
  CASE x = 0 /\ z = 0 -> "I"
    [] x = 1 /\ z = 0 -> "X"
    [] x = 0 /\ z = 1 -> "Z"
    [] x = 1 /\ z = 1 -> "Y"

\* a * b = i^e * (a letter): e is 0 when a and b commute, 1 for XY, YZ, ZX
\* and 3 for YX, ZY, XZ
PauliPhase(a, b) ==
  IF a = "I" \/ b = "I" \/ a = b THEN 0
  ELSE IF <<a, b>> \in {<<"X", "Y">>, <<"Y", "Z">>, <<"Z", "X">>} THEN 1
  ELSE 3

\* the power of i in ((-1)^ri * P_i) * ((-1)^rh * P_h) for the rows of N = 1
ProductPhase ==
  (2 * rh + 2 * ri
     + PauliPhase(PauliOf(rowi[0], rowi[1]), PauliOf(rowh[0], rowh[1]))) % 4

\* C11 as claimed: for all 16 combinations row_sum returns the sign bit of the
\* product, read as generously as possible: 1 for the phases -1 and -i, 0 for
\* the phases +1 and +i.
C11_SignOfEveryProduct ==
  (pc = "row_sum" /\ N = 1) =>
    (rs_out = IF ProductPhase \in {2, 3} THEN 1 ELSE 0)

\* C11 amended: for the 10 combinations of commuting operators the product is
\* + or - a Pauli operator and row_sum returns its sign bit; for the 6
\* combinations of anticommuting operators the product is +i or -i times a
\* Pauli operator and row_sum returns 1 for both.
C11_SignOfCommutingProduct ==
  (pc = "row_sum" /\ N = 1) =>
    IF PauliPhase(PauliOf(rowi[0], rowi[1]), PauliOf(rowh[0], rowh[1])) = 0
      THEN ProductPhase \in {0, 2} /\ rs_out = ProductPhase \div 2
      ELSE ProductPhase \in {1, 3} /\ rs_out = 1

\* C11 witness: Z * X = +iY with both signs +, for which row_sum returns 1
C11_Witness ==
  /\ pc = "row_sum" /\ N = 1 /\ rh = 0 /\ ri = 0
  /\ PauliOf(rowi[0], rowi[1]) = "Z" /\ PauliOf(rowh[0], rowh[1]) = "X"
  /\ ProductPhase = 1 /\ rs_out = 1

\* C15: row_sum called on the already updated row (h XOR i), as the
\* elimination loop calls it, returns the sign row_sum gives on the row h
\* before the update; its k is the negative of the k of the row before.
C15_UpdatedRowSameSign ==
  pc = "row_sum_updated" =>
    /\ k_out = 0 - PhaseSum(rowi, rowh, N, N - 1)
    /\ rs_out = IF (2 * rh + 2 * ri + PhaseSum(rowi, rowh, N, N - 1)) % 4 = 0
                  THEN 0 ELSE 1

\* C15 witness: a call on an updated row whose k is not 0, so that the two
\* orders differ in k, with the result 0
C15_Witness ==
  /\ pc = "row_sum_updated" /\ k_out # 0 /\ rs_out = 0
  /\ PhaseSum(rowi, rowh, N, N - 1) # k_out

\* the X part of row k of an n-qubit matrix: its columns 0..n-1
XPart(M, k, n) == [c \in 0..n-1 |-> M[k][c]]
XPartMatrix(M, n) == [k \in DOMAIN M |-> XPart(M, k, n)]

\* C16: after REF_binary the rank r of the X part is the number of pivot rows
\* with a pivot column below N; the rows 0..r-1 have a non-zero X part and
\* the rows r..N-1 an all-zero one, so signs3[rank:] are the signs of the
\* N - r reduced generators without X component; r is at most the number of
\* pivot rows of the reduction.
C16_XRankSplitsRows ==
  pc = "otoc" =>
    /\ rank = Rank(XPartMatrix(A, N))
    /\ rank = Cardinality({k \in 0..current_row-1 : Lead(A[k]) < N})
    /\ \A k \in 0..rank-1 : ~ZeroRow(XPart(A, k, N))
    /\ \A k \in rank..N-1 : ZeroRow(XPart(A, k, N))
    /\ rank <= current_row /\ size2 = N - rank

\* C16 witness: a reduction of full rank whose X part has a smaller rank, with
\* sign 1 on a generator without X component
C16_Witness ==
  /\ pc = "otoc" /\ N = MaxN /\ current_row = N
  /\ rank > 0 /\ rank < current_row
  /\ signs[rank] = 1 /\ ~ZeroRow(A[rank])

\* ---- the step classes, as the claims speak of them
OnlyXY(cs) == \A q \in DOMAIN cs : cs[q] \in {"X", "Y"}

\* C12 as claimed: Initialize(N, op_string) raises or stores a string of
\* length N made of the letters 'X' and 'Y' only; None becomes 'X' * N, a
\* value that is no string raises ValueError, a string with another letter
\* raises.
C12_StoredOpString ==
  (pc \in {"built", "ctor_raised"} /\ \E j \in DOMAIN classes : classes[j] = "Initialize") =>
    /\ \/ step_err.kind # "none"
       \/ /\ op_string.kind = "str"
          /\ Len(op_string.chars) = N
          /\ OnlyXY(op_string.chars)
    /\ op_arg = None => (pc = "built" /\ op_string = Str([q \in 1..N |-> "X"]))
    /\ op_arg = NotAStr => step_err.kind = "ValueError"
    /\ (op_arg.kind = "str" /\ ~OnlyXY(op_arg.chars)) => pc = "ctor_raised"

\* C13: Initialize applied at step_count 0 on a fresh simulator does X on
\* qubit i exactly when op_string[i] is 'Y' and only I elsewhere, so the
\* expectation of Z on qubit i is -1 iff op_string[i] is 'Y' and +1 otherwise
\* and the expectation of X on every qubit is 0; IdStep at step_count 0 flips
\* no qubit.
C13_InitializeFlipsY ==
  (pc = "applied" /\ step_count = 0 /\ Len(classes) = 1 /\ step_err.kind = "none") =>
    /\ classes[1] = "Initialize" =>
         /\ \A e \in DOMAIN log : log[e].gate \in {"I", "X"}
         /\ \A q \in 0..MaxQubits+MaxLen :
              LET isY == q < Len(op_string.chars) /\ op_string.chars[q + 1] = "Y"
              IN /\ Cardinality({e \in DOMAIN log :
                        log[e].gate = "X" /\ log[e].targets = <<q>>}) = IF isY THEN 1 ELSE 0
                 /\ expectation("Z", log, q) = IF isY THEN -1 ELSE 1
                 /\ expectation("X", log, q) = 0
    /\ classes[1] = "IdStep" =>
         /\ log = <<[step |-> 1, gate |-> "I", targets |-> <<N - 1>>]>>
         /\ \A q \in 0..N-1 : expectation("Z", log, q) = 1 /\ expectation("X", log, q) = 0

\* C13 witness: Initialize(3, "XYY") applied at step_count 0
C13_Witness ==
  /\ pc = "applied" /\ step_count = 0 /\ classes = <<"Initialize">> /\ N = 3
  /\ op_string = Str(<<"X", "Y", "Y">>) /\ step_err.kind = "none"
  /\ expectation("Z", log, 0) = 1 /\ expectation("Z", log, 1) = -1
  /\ expectation("Z", log, 2) = -1

\* the trigger of each class, as a table
Acts(cls, sc) ==
  \/ cls \in {"IdStep", "Initialize"} /\ sc = 0
  \/ cls = "ThreeQuarterStep" /\ sc > 0
  \/ cls = "AlternatingEven" /\ sc > 0 /\ sc % 2 = 0
  \/ cls = "AlternatingOdd" /\ sc % 2 = 1

GatesOf(j, gt) == {e \in DOMAIN log : log[e].step = j /\ log[e].gate = gt}

\* no qubit is a target twice among the ZH and C3 gates of step j
DistinctTargets(j) ==
  \A e, f \in GatesOf(j, "ZH") \cup GatesOf(j, "C3") :
    \A a \in DOMAIN log[e].targets, b \in DOMAIN log[f].targets :
      (e # f \/ a # b) => log[e].targets[a] # log[f].targets[b]

\* C18 as claimed: a ThreeQuarterStep, AlternatingEven or AlternatingOdd step
\* that applies either raises ValueError or does its gates on pairwise
\* distinct qubits, all read inside the shuffled list: (N//slow)//4 C3 and
\* N//slow - 3*((N//slow)//4) ZH for ThreeQuarterStep, N//slow ZH for
\* AlternatingEven, (N//slow)//3 C3 for AlternatingOdd.
C18_DistinctQubitsOrValueError ==
  pc = "applied" =>
    \A j \in DOMAIN classes :
      (/\ classes[j] \in {"ThreeQuarterStep", "AlternatingEven", "AlternatingOdd"}
       /\ Acts(classes[j], step_count)
       /\ (step_err.kind = "none" \/ step_err.step >= j)) =>
        \/ step_err = [kind |-> "ValueError", step |-> j]
        \/ /\ step_err.kind = "none" \/ step_err.step > j
           /\ DistinctTargets(j)
           /\ classes[j] = "ThreeQuarterStep" =>
                /\ Cardinality(GatesOf(j, "C3")) = (N \div slow) \div 4
                /\ Cardinality(GatesOf(j, "ZH")) = (N \div slow) - 3 * ((N \div slow) \div 4)
           /\ classes[j] = "AlternatingEven" =>
                Cardinality(GatesOf(j, "ZH")) = N \div slow
           /\ classes[j] = "AlternatingOdd" =>
                Cardinality(GatesOf(j, "C3")) = (N \div slow) \div 3

\* C14 as claimed: every driver called with T, rep, res >= 1 returns v and w
\* of length int(T/res) with w[m] = m*res, having added one sample divided by
\* rep to v[int(i/res)] for each repetition and each i < T with i mod res = 0,
\* every index inside v, and raises nothing.
C14_DriverReturns ==
  pc \in {"returned", "raised"} =>
    /\ drv_err = "none"
    /\ DOMAIN v_arr = 0..(T \div res)-1 /\ DOMAIN w_arr = 0..(T \div res)-1
    /\ \A m \in DOMAIN w_arr : w_arr[m] = m * res
    /\ Len(adds) = rep * Cardinality({i \in 0..T-1 : i % res = 0})
    /\ \A m \in DOMAIN v_arr :
         v_arr[m] = rep * Cardinality({i \in 0..T-1 : i % res = 0 /\ i \div res = m})

====
